---- MODULE Spec2Model ----
(***************************************************************************)
(* The fee plugin of app/feeParam.go: ValidateFee, the minimum fee check   *)
(* FeeParamDecorator.AnteHandle, the fee deduction                         *)
(* DeductFeeDecorator.AnteHandle and DeductFees, run by a host pipeline    *)
(* of ante handlers over a ledger of balances.                             *)
(***************************************************************************)
EXTENDS Integers, Sequences, FiniteSets, TLC

\* Largest fee amount a transaction declares and the payer's opening balance.
MaxAmount == 2

\* Denominations, ordered as the SDK orders their names: 1 = "denomA", 2 = "denomB".
Denoms == {1, 2}

\* Fee payer addresses: "payer" holds an account, "ghost" holds none.
Addrs == {"payer", "ghost"}

\* The addresses the bank keeps balances for: the fee payers, the fee collector
\* module account and an account no transaction names.
Ledger == Addrs \cup {"collector", "bystander"}

VARIABLES
    store,        \* the parameter store's value under ParamStoreKeyfee: the minimum gas prices
    collectorSet, \* whether GetModuleAddress(FeeCollectorName) resolves
    accounts,     \* the addresses the account keeper has an account for
    balances,     \* the bank ledger: address -> denomination -> amount
    pc,           \* where the host pipeline stands: "idle", "check", "deduct", "end", "abort", "validated"
    chain,        \* the stages wired after the pending one
    call,         \* the arguments (ctx, tx, simulate) of the pending stage invocation
    last,         \* the record of the stage invocation that completed last
    validated     \* the last candidate handed to a parameter validator, and its outcome

vars == <<store, collectorSet, accounts, balances, pc, chain, call, last, validated>>

----------------------------------------------------------------------------
(* Integers beyond the checker's native range.                             *)
(*   Q0 = floor(2^63 / 10) = 922337203685477580,  2^63 = 10*Q0 + 8         *)
(*   Q1 = Q0 / 10          = 92233720368547758                             *)
(* A gas limit (uint64, and its int64 conversion) is q*Q0 + c; an amount   *)
(* (sdk.Int) is h*Q1 + c; q, h and c are small, so two values of one kind  *)
(* compare by (q, c) or (h, c).  A rate in tenths times a gas limit is     *)
(* (rate*q*Q0 + rate*c)/10 = rate*q*Q1 + rate*c/10, whose ceiling is an    *)
(* amount again, exactly.                                                  *)

Gas(q, c) == [q |-> q, c |-> c]

Big(h, c) == [h |-> h, c |-> c]

Small(n) == Big(0, n)

BigLT(x, y) == x.h < y.h \/ (x.h = y.h /\ x.c < y.c)

BigGTE(x, y) == ~BigLT(x, y)

BigEq(x, y) == x.h = y.h /\ x.c = y.c

BigIsZero(x) == BigEq(x, Small(0))

BigIsNegative(x) == BigLT(x, Small(0))

\* ceil(a / 10) for any integer a.
CeilTenths(a) == -((-a) \div 10)

\* gas >= 2^63, with 2^63 = 10*Q0 + 8.
GasAboveInt64(gas) == gas.q > 10 \/ (gas.q = 10 /\ gas.c >= 8)

\* int64(gas) of a uint64 gas limit: values from 2^63 on wrap to gas - 2^64,
\* with 2^64 = 20*Q0 + 16.
Int64Wrap(gas) == Gas(gas.q - 20, gas.c - 16)

Int64(gas) == IF GasAboveInt64(gas) THEN Int64Wrap(gas) ELSE gas

\* gp.Amount.Mul(glDec) for a rate of `rate` tenths and glDec = q*Q0 + c: the
\* decimal (rate*q*Q0 + rate*c) / 10, kept as the q and c parts of its numerator.
DecMul(rate, glDec) == [q |-> rate * glDec.q, c |-> rate * glDec.c]

\* fee.Ceil().RoundInt(): (q*Q0 + c)/10 = q*Q1 + c/10, rounded up.
DecCeilRoundInt(d) == Big(d.q, CeilTenths(d.c))

----------------------------------------------------------------------------
(* sdk.Coins and sdk.DecCoins: sequences of (denom, amount).               *)

Coin(d, a) == [denom |-> d, amount |-> a]

\* sdk.ValidateDenom: 0 stands for a name the denomination pattern refuses.
DenomIsValid(d) == d \in Denoms

\* Coins.IsZero: every coin's amount is zero (true of the empty set).
CoinsIsZero(coins) == \A i \in 1..Len(coins) : coins[i].amount = 0

\* Coins.IsValid: well-formed, strictly ascending denominations, strictly
\* positive amounts.
CoinsIsValid(coins) ==
    /\ \A i \in 1..Len(coins) : DenomIsValid(coins[i].denom) /\ coins[i].amount > 0
    /\ \A i \in 1..Len(coins) - 1 : coins[i].denom < coins[i + 1].denom

\* DecCoins.IsZero: every rate is zero (true of nil).
DecCoinsIsZero(decCoins) == \A i \in 1..Len(decCoins) : decCoins[i].amount = 0

\* DecCoins.Empty: len(coins) == 0.
DecCoinsEmpty(decCoins) == Len(decCoins) = 0

\* Coins.AmountOf for a well-formed denom: zero of an empty set, the one coin's
\* amount or zero of a singleton, and otherwise a binary search on the middle
\* coin, index len/2 counted from 0, whatever the order of the coins is.
RECURSIVE AmountOf(_, _)
AmountOf(coinsB, denom) ==
    IF Len(coinsB) = 0 THEN Small(0)
    ELSE IF Len(coinsB) = 1
    THEN IF coinsB[1].denom = denom THEN coinsB[1].amount ELSE Small(0)
    ELSE LET mid == Len(coinsB) \div 2 + 1
         IN  IF denom < coinsB[mid].denom
             THEN AmountOf(SubSeq(coinsB, 1, mid - 1), denom)
             ELSE IF denom = coinsB[mid].denom
             THEN coinsB[mid].amount
             ELSE AmountOf(SubSeq(coinsB, mid + 1, Len(coinsB)), denom)

\* The loop of Coins.IsAnyGTE from coin i on: "true" at the first coin that is
\* >= the non-zero amount coinsB has for its denom, "panic" when AmountOf's
\* mustValidateDenom meets an ill-formed denom before that, else "false".
RECURSIVE IsAnyGTEFrom(_, _, _)
IsAnyGTEFrom(coins, coinsB, i) ==
    IF i > Len(coins) THEN "false"
    ELSE IF ~DenomIsValid(coins[i].denom) THEN "panic"
    ELSE LET amt == AmountOf(coinsB, coins[i].denom)
         IN  IF BigGTE(Small(coins[i].amount), amt) /\ ~BigIsZero(amt)
             THEN "true"
             ELSE IsAnyGTEFrom(coins, coinsB, i + 1)

\* Coins.IsAnyGTE: false against an empty coinsB, else the loop over coins.
IsAnyGTE(coins, coinsB) ==
    IF Len(coinsB) = 0 THEN "false" ELSE IsAnyGTEFrom(coins, coinsB, 1)

----------------------------------------------------------------------------
(* FeeParameter validation.  A candidate is a value of some Go type: shape *)
(* names the type, fee holds its Fee field, burn its BurnAmount.           *)

\* Variant with a defect: a burn amount of zero refused (GT for GTE).
ValidateFeeBurnPositive(i) ==
    IF i.shape # "FeeParams" THEN "invalid parameter type"
    ELSE IF DecCoinsEmpty(i.fee) THEN "fee must be positive"
    ELSE IF ~(i.burn > 0) THEN "burn amount must positive"
    ELSE "nil"

ValidateFee(i) ==
    IF i.shape # "FeeParams" THEN "invalid parameter type"
    ELSE IF DecCoinsEmpty(i.fee) THEN "fee must be positive"
    ELSE IF ~(i.burn >= 0) THEN "burn amount must positive"
    ELSE "nil"

\* The fee-only variant of the parameter and its validator.
ValidateFeeOnly(i) ==
    IF i.shape # "Fee" THEN "invalid parameter type"
    ELSE IF DecCoinsEmpty(i.fee) THEN "fee must be positive"
    ELSE "nil"

----------------------------------------------------------------------------
(* The result of one stage invocation.                                     *)
(*   err      the error the stage itself returns ("nil" when none,         *)
(*            "panic" when it halts)                                       *)
(*   log      the collaborator calls it made, in order                     *)
(*   next     the argument triples it passed to next, in order             *)
(*   required the requiredFees it built (<<>> when it built none)          *)
(*   bal      the ledger after it                                          *)

Result(err, log, next, required, bal) ==
    [err |-> err, log |-> log, next |-> next, required |-> required, bal |-> bal]

Args(ctx, tx, simulate) == [ctx |-> ctx, tx |-> tx, simulate |-> simulate]

\* ---- FeeParamDecorator.AnteHandle ----

\* Variant with a defect: the guard without its simulate half.
IsActiveOnCheckTx(ctx, simulate) == ctx.isCheckTx

\* The guard of the minimum fee check.
IsActive(ctx, simulate) == ctx.isCheckTx /\ ~simulate

\* The caller's minGasPrices after mfd.ParamStore.Get(ctx, ParamStoreKeyfee,
\* minGasPrices) returns: the slice is passed by value, so whatever the store
\* holds the caller's variable keeps the value it had.
ParamStoreGet(stored, minGasPrices) == minGasPrices

\* requiredFees[i] = NewCoin(gp.Denom, ceil(gp.Amount * glDec)), glDec = NewDec(int64(gas)).
RequiredFees(minGasPrices, gas) ==
    [i \in 1..Len(minGasPrices) |->
        Coin(minGasPrices[i].denom,
             DecCeilRoundInt(DecMul(minGasPrices[i].amount, Int64(gas))))]

\* sdk.NewCoin panics on an ill-formed denom and on a negative amount.
NewCoinPanics(requiredFees) ==
    \E i \in 1..Len(requiredFees) :
        ~DenomIsValid(requiredFees[i].denom) \/ BigIsNegative(requiredFees[i].amount)

\* The block guarded by !minGasPrices.IsZero(), and the call of next after it.
CheckMinGasPrices(minGasPrices, ctx, tx, simulate) ==
    LET requiredFees == RequiredFees(minGasPrices, tx.gas)
    IN  IF ~DecCoinsIsZero(minGasPrices) THEN
            IF NewCoinPanics(requiredFees)
            THEN Result("panic", <<"ParamStore.Get">>, <<>>, <<>>, balances)
            ELSE IF IsAnyGTE(tx.fee, requiredFees) = "panic"
            THEN Result("panic", <<"ParamStore.Get">>, <<>>, <<>>, balances)
            ELSE IF IsAnyGTE(tx.fee, requiredFees) = "false"
            THEN Result("ErrInsufficientFee", <<"ParamStore.Get">>, <<>>,
                        requiredFees, balances)
            ELSE Result("nil", <<"ParamStore.Get", "next">>,
                        <<Args(ctx, tx, simulate)>>, requiredFees, balances)
        ELSE Result("nil", <<"ParamStore.Get", "next">>,
                    <<Args(ctx, tx, simulate)>>, <<>>, balances)

\* storePanics: whether the host's ParamStore.Get halts on the non-pointer
\* argument (the SDK's parameter subspace does: its type check and its
\* unmarshalling both want a pointer; a store that ignores the argument returns).
FeeParamAnteHandle(ctx, tx, simulate, storePanics) ==
    IF ~tx.isFeeTx THEN Result("ErrTxDecode", <<>>, <<>>, <<>>, balances)
    ELSE IF IsActive(ctx, simulate) THEN
        IF storePanics THEN Result("panic", <<"ParamStore.Get">>, <<>>, <<>>, balances)
        ELSE CheckMinGasPrices(ParamStoreGet(store, <<>>), ctx, tx, simulate)
    ELSE Result("nil", <<"next">>, <<Args(ctx, tx, simulate)>>, <<>>, balances)

\* ---- the bank keeper's transfer primitive ----

\* Whether from holds every coin of amt.
HasCoins(bal, from, amt) == \A i \in 1..Len(amt) : bal[from][amt[i].denom] >= amt[i].amount

\* The amount amt moves in denomination d.
Moved(amt, d) ==
    IF \E i \in 1..Len(amt) : amt[i].denom = d
    THEN amt[CHOOSE i \in 1..Len(amt) : amt[i].denom = d].amount
    ELSE 0

\* SendCoinsFromAccountToModule(ctx, from, FeeCollectorName, amt): all or nothing.
SendCoinsFromAccountToModule(bal, from, amt) ==
    IF HasCoins(bal, from, amt)
    THEN [err |-> "nil",
          bal |-> [bal EXCEPT ![from] = [d \in Denoms |-> bal[from][d] - Moved(amt, d)],
                              !["collector"] = [d \in Denoms |-> bal["collector"][d] + Moved(amt, d)]]]
    ELSE [err |-> "insufficient funds", bal |-> bal]

\* ---- DeductFees ----

\* Variant with a defect: the transfer's error dropped.
DeductFeesDropsTransferError(bal, acc, fees) ==
    IF ~CoinsIsValid(fees)
    THEN [err |-> "ErrInsufficientFee", log |-> <<>>, bal |-> bal]
    ELSE [err |-> "nil", log |-> <<"SendCoinsFromAccountToModule">>,
          bal |-> SendCoinsFromAccountToModule(bal, acc, fees).bal]

DeductFees(bal, acc, fees) ==
    IF ~CoinsIsValid(fees)
    THEN [err |-> "ErrInsufficientFee", log |-> <<>>, bal |-> bal]
    ELSE LET sent == SendCoinsFromAccountToModule(bal, acc, fees)
         IN  IF sent.err # "nil"
             THEN [err |-> "ErrInsufficientFunds",
                   log |-> <<"SendCoinsFromAccountToModule">>, bal |-> sent.bal]
             ELSE [err |-> "nil",
                   log |-> <<"SendCoinsFromAccountToModule">>, bal |-> sent.bal]

\* ---- DeductFeeDecorator.AnteHandle ----

\* Variant with a defect: the account lookup's result never tested.
FeePayerAssumedKnown(tx) == TRUE

\* feePayerAcc != nil for the account GetAccount(ctx, feeTx.FeePayer()) returns.
FeePayerKnown(tx) == tx.payer \in accounts

\* Variant with a defect: the guard of the deduction inverted.
MustDeductWhenZero(tx) == CoinsIsZero(tx.fee)

\* The guard of the deduction: !feeTx.GetFee().IsZero().
MustDeduct(tx) == ~CoinsIsZero(tx.fee)

\* Variant with a defect: the error DeductFees returns is not returned before next is called.
AfterDeductFeesAlwaysNext(d, ctx, tx, simulate) ==
    Result(d.err, <<"GetModuleAddress", "GetAccount">> \o d.log \o <<"next">>,
           <<Args(ctx, tx, simulate)>>, <<>>, d.bal)

\* What follows DeductFees: its error returned, or next called.
AfterDeductFees(d, ctx, tx, simulate) ==
    IF d.err # "nil"
    THEN Result(d.err, <<"GetModuleAddress", "GetAccount">> \o d.log, <<>>, <<>>, d.bal)
    ELSE Result("nil", <<"GetModuleAddress", "GetAccount">> \o d.log \o <<"next">>,
                <<Args(ctx, tx, simulate)>>, <<>>, d.bal)

DeductFeeAnteHandle(ctx, tx, simulate) ==
    IF ~tx.isFeeTx THEN Result("ErrTxDecode", <<>>, <<>>, <<>>, balances)
    ELSE IF ~collectorSet
    THEN Result("panic", <<"GetModuleAddress">>, <<>>, <<>>, balances)
    ELSE IF ~FeePayerKnown(tx)
    THEN Result("ErrUnknownAddress", <<"GetModuleAddress", "GetAccount">>, <<>>, <<>>, balances)
    ELSE IF MustDeduct(tx)
    THEN AfterDeductFees(DeductFees(balances, tx.payer, tx.fee), ctx, tx, simulate)
    ELSE Result("nil", <<"GetModuleAddress", "GetAccount", "next">>,
                <<Args(ctx, tx, simulate)>>, <<>>, balances)

----------------------------------------------------------------------------
(* Inputs.                                                                 *)

Amounts == -1..MaxAmount

\* The denomination names a declared fee may carry: the well-formed ones and 0,
\* an ill-formed one (it sorts before them).
FeeDenoms == Denoms \cup {0}

\* Declared fees: at most one entry per denomination slot, in any order, with
\* repeated or ill-formed denominations and non-positive amounts included.
Fees == UNION {[1..n -> [denom : FeeDenoms, amount : Amounts]] : n \in 0..Cardinality(Denoms)}

\* Gas limits: 0, 20, 5*Q0 + 3 = 4611686018427387903, 2^63, 2^64 - 1.
GasLimits == {Gas(0, 0), Gas(0, 20), Gas(5, 3), Gas(10, 8), Gas(20, 15)}

FeeTxs == [isFeeTx : {TRUE}, fee : Fees, gas : GasLimits, payer : Addrs]

\* A transaction that does not implement sdk.FeeTx.
PlainTx == [isFeeTx |-> FALSE, fee |-> <<>>, gas |-> Gas(0, 0), payer |-> "ghost"]

Txs == FeeTxs \cup {PlainTx}

Contexts == [isCheckTx : BOOLEAN]

\* Minimum gas prices, rates in tenths: none, {(denomA, 0)}, {(denomA, 0.1)},
\* {(denomA, 0.1), (denomB, 0)} and, out of order as ValidateFee lets them
\* be, {(denomB, 0.2), (denomA, 0.1)}.
Stores == {<<>>, <<Coin(1, 0)>>, <<Coin(1, 1)>>, <<Coin(1, 1), Coin(2, 0)>>,
           <<Coin(2, 2), Coin(1, 1)>>}

\* The pipelines a host wires from the two stages.
Chains == {<<"check">>, <<"deduct">>, <<"check", "deduct">>}

\* Candidates for parameter validation.
Candidates == [shape : {"FeeParams", "Fee", "Other"}, fee : Stores, burn : -1..1]

NoCall == Args([isCheckTx |-> FALSE], PlainTx, FALSE)

NoLast == [stage |-> "none", args |-> NoCall, err |-> "nil", log |-> <<>>,
           next |-> <<>>, required |-> <<>>, balBefore |-> <<>>]

NoValidated == [validator |-> "none", candidate |-> <<>>, err |-> "nil"]

----------------------------------------------------------------------------
(* The host pipeline.                                                      *)

Init ==
    /\ store \in Stores
    /\ collectorSet \in BOOLEAN
    /\ accounts = {"payer", "bystander"}
    /\ balances = [a \in Ledger |->
                     [d \in Denoms |-> IF a = "collector" \/ a = "ghost" THEN 0 ELSE MaxAmount]]
    /\ pc = "idle"
    /\ chain = <<>>
    /\ call = NoCall
    /\ last = NoLast
    /\ validated = NoValidated

\* The host starts a pipeline run on a transaction.
Begin ==
    /\ pc = "idle"
    /\ \E ch \in Chains, ctx \in Contexts, tx \in Txs, simulate \in BOOLEAN :
          /\ pc' = Head(ch)
          /\ chain' = Tail(ch)
          /\ call' = Args(ctx, tx, simulate)
    /\ last' = NoLast
    /\ validated' = NoValidated
    /\ UNCHANGED <<store, collectorSet, accounts, balances>>

\* What a completed stage leaves: its record, and control at the stage it called.
Complete(stage, r) ==
    /\ last' = [stage |-> stage, args |-> call, err |-> r.err, log |-> r.log,
                next |-> r.next, required |-> r.required, balBefore |-> balances]
    /\ balances' = r.bal
    /\ IF Len(r.next) > 0
       THEN /\ call' = r.next[1]
            /\ pc' = IF Len(chain) > 0 THEN Head(chain) ELSE "end"
            /\ chain' = IF Len(chain) > 0 THEN Tail(chain) ELSE chain
       ELSE /\ pc' = "abort"
            /\ UNCHANGED <<call, chain>>
    /\ UNCHANGED <<store, collectorSet, accounts, validated>>

MinFeeCheckStage ==
    /\ pc = "check"
    /\ \E storePanics \in BOOLEAN :
          Complete("check", FeeParamAnteHandle(call.ctx, call.tx, call.simulate, storePanics))

FeeDeductionStage ==
    /\ pc = "deduct"
    /\ Complete("deduct", DeductFeeAnteHandle(call.ctx, call.tx, call.simulate))

\* The host hands a candidate to the registered validator.
ValidateParams ==
    /\ pc = "idle"
    /\ \E i \in Candidates :
          validated' = [validator |-> "ValidateFee", candidate |-> i, err |-> ValidateFee(i)]
    /\ pc' = "validated"
    /\ UNCHANGED <<store, collectorSet, accounts, balances, chain, call, last>>

ValidateParamsFeeOnly ==
    /\ pc = "idle"
    /\ \E i \in Candidates :
          validated' = [validator |-> "ValidateFeeOnly", candidate |-> i,
                        err |-> ValidateFeeOnly(i)]
    /\ pc' = "validated"
    /\ UNCHANGED <<store, collectorSet, accounts, balances, chain, call, last>>

\* The run is over: the host takes the outcome and is ready for the next one.
Return ==
    /\ pc \in {"end", "abort", "validated"}
    /\ pc' = "idle"
    /\ chain' = <<>>
    /\ call' = NoCall
    /\ last' = NoLast
    /\ validated' = NoValidated
    /\ UNCHANGED <<store, collectorSet, accounts, balances>>

Next ==
    \/ Begin
    \/ MinFeeCheckStage
    \/ FeeDeductionStage
    \/ ValidateParams
    \/ ValidateParamsFeeOnly
    \/ Return

Spec == Init /\ [][Next]_vars

----------------------------------------------------------------------------
(* The fee rule applied directly to loaded minimum gas prices: the inputs  *)
(* are drawn at the start and the rule of FeeParamDecorator.AnteHandle is  *)
(* applied to them as if the parameter read had filled minGasPrices.       *)

InitFee ==
    /\ store \in Stores
    /\ collectorSet = TRUE
    /\ accounts = {"payer", "bystander"}
    /\ balances = [a \in Ledger |->
                     [d \in Denoms |-> IF a = "collector" \/ a = "ghost" THEN 0 ELSE MaxAmount]]
    /\ pc = "check"
    /\ chain = <<>>
    /\ call \in [ctx : {[isCheckTx |-> TRUE]},
                 tx : [isFeeTx : {TRUE}, fee : Fees, gas : GasLimits, payer : {"payer"}],
                 simulate : {FALSE}]
    /\ last = NoLast
    /\ validated = NoValidated

ApplyFeeRule ==
    /\ pc = "check"
    /\ Complete("check", CheckMinGasPrices(store, call.ctx, call.tx, call.simulate))

SpecFee == InitFee /\ [][ApplyFeeRule]_vars

----------------------------------------------------------------------------
(* What the properties speak of.                                           *)

\* ceil(rate x gasLimit) for a rate in tenths, over the gas limit itself.
CeilRateTimesGas(rate, gas) == DecCeilRoundInt(DecMul(rate, gas))

\* Some declared denomination has amount >= ceil(rate x gasLimit) for that denomination.
MeetsAnyMinimum(fee, minimums, gas) ==
    \E i \in 1..Len(fee), j \in 1..Len(minimums) :
        /\ fee[i].denom = minimums[j].denom
        /\ BigGTE(Small(fee[i].amount), CeilRateTimesGas(minimums[j].amount, gas))

\* The total a fee declares in denomination d.
RECURSIVE DeclaredAmount(_, _)
DeclaredAmount(fee, d) ==
    IF Len(fee) = 0 THEN 0
    ELSE (IF Head(fee).denom = d THEN Head(fee).amount ELSE 0) + DeclaredAmount(Tail(fee), d)

\* The payer holds less than the fee declares in some denomination.
LacksFee(bal, payer, fee) == \E d \in Denoms : DeclaredAmount(fee, d) > bal[payer][d]

\* The sum of all balances in denomination d.
RECURSIVE SupplyOver(_, _, _)
SupplyOver(bal, as, d) ==
    IF as = {} THEN 0
    ELSE LET a == CHOOSE x \in as : TRUE IN bal[a][d] + SupplyOver(bal, as \ {a}, d)

Supply(bal, d) == SupplyOver(bal, Ledger, d)

\* How often the stage called next, by its log.
NextCalls(log) == Cardinality({i \in 1..Len(log) : log[i] = "next"})

\* The minimum fee check completed last, on a fee transaction.
CheckRan == last.stage = "check" /\ last.args.tx.isFeeTx

\* It ran in speculative admission, not simulating, against non-zero minimums.
CheckRanActive ==
    /\ CheckRan
    /\ last.args.ctx.isCheckTx /\ ~last.args.simulate
    /\ ~DecCoinsIsZero(store)

\* The fee deduction completed last, on a fee transaction, with the collector resolvable.
DeductRan == last.stage = "deduct" /\ last.args.tx.isFeeTx /\ collectorSet

----------------------------------------------------------------------------
(* Properties.                                                             *)

\* C1: when the minimum fee check runs in speculative admission without
\* simulation against non-zero minimums, a transaction none of whose declared
\* denominations reaches ceil(rate x gasLimit) is rejected with
\* ErrInsufficientFee and next is not invoked.
C1_InsufficientFeeRejected ==
    (CheckRanActive /\ ~MeetsAnyMinimum(last.args.tx.fee, store, last.args.tx.gas))
        => (last.err = "ErrInsufficientFee" /\ last.next = <<>>)

\* C2: when the minimum fee check is active, a transaction with at least one
\* declared denomination at or above its required amount is accepted and
\* handed to next, whatever the other denominations are.
C2_AnyDenominationAccepted ==
    (CheckRanActive /\ MeetsAnyMinimum(last.args.tx.fee, store, last.args.tx.gas))
        => (last.err = "nil" /\ last.next = <<last.args>>)

\* C3: run with simulate true or outside speculative admission, the minimum
\* fee check reads nothing, validates nothing, returns no error, leaves every
\* balance as it was and calls next once with the arguments it was given.
C3_PassthroughOutsideCheck ==
    (CheckRan /\ (last.args.simulate \/ ~last.args.ctx.isCheckTx))
        => /\ last.err = "nil"
           /\ last.log = <<"next">>
           /\ last.required = <<>>
           /\ last.next = <<last.args>>
           /\ balances = last.balBefore

C3_Witness ==
    /\ CheckRan
    /\ last.args.simulate /\ last.args.ctx.isCheckTx
    /\ ~DecCoinsIsZero(store)
    /\ ~MeetsAnyMinimum(last.args.tx.fee, store, last.args.tx.gas)
    /\ last.next = <<last.args>>

\* C4: deducting a non-zero, well-formed fee from an existing payer that holds
\* it in every denomination (the collector account resolvable) lowers the
\* payer's balance by exactly the declared amount in each denomination, raises
\* the collector's by the same, changes no other balance, conserves the supply,
\* and calls next.
C4_FundedPayerDeducted ==
    (/\ DeductRan
     /\ last.args.tx.payer \in accounts
     /\ ~CoinsIsZero(last.args.tx.fee)
     /\ CoinsIsValid(last.args.tx.fee)
     /\ ~LacksFee(last.balBefore, last.args.tx.payer, last.args.tx.fee))
        => /\ \A d \in Denoms :
                /\ balances[last.args.tx.payer][d] =
                       last.balBefore[last.args.tx.payer][d] - DeclaredAmount(last.args.tx.fee, d)
                /\ balances["collector"][d] =
                       last.balBefore["collector"][d] + DeclaredAmount(last.args.tx.fee, d)
                /\ Supply(balances, d) = Supply(last.balBefore, d)
           /\ \A a \in Ledger \ {last.args.tx.payer, "collector"} :
                balances[a] = last.balBefore[a]
           /\ last.err = "nil"
           /\ last.next = <<last.args>>

C4_Witness ==
    /\ DeductRan
    /\ last.args.tx.fee = <<Coin(1, 1), Coin(2, MaxAmount)>>
    /\ last.balBefore["payer"][1] = MaxAmount
    /\ balances["payer"][1] = MaxAmount - 1
    /\ balances["payer"][2] = 0
    /\ balances["collector"][2] = MaxAmount
    /\ last.next = <<last.args>>

\* C5 as stated: whenever the payer exists and lacks the declared fee in some
\* denomination, the deduction leaves every balance as it was, returns
\* ErrInsufficientFunds and does not call next.
C5_AsStated ==
    (/\ DeductRan
     /\ last.args.tx.payer \in accounts
     /\ LacksFee(last.balBefore, last.args.tx.payer, last.args.tx.fee))
        => /\ balances = last.balBefore
           /\ last.err = "ErrInsufficientFunds"
           /\ last.next = <<>>

\* C5 as amended: whenever the payer exists and lacks the declared fee in some
\* denomination, the deduction leaves every balance as it was and does not call
\* next; it returns ErrInsufficientFunds when the fee is well-formed and
\* ErrInsufficientFee, without calling the transfer, when it is malformed.
C5_NoPartialTransfer ==
    (/\ DeductRan
     /\ last.args.tx.payer \in accounts
     /\ LacksFee(last.balBefore, last.args.tx.payer, last.args.tx.fee))
        => /\ balances = last.balBefore
           /\ last.next = <<>>
           /\ CoinsIsValid(last.args.tx.fee) => last.err = "ErrInsufficientFunds"
           /\ ~CoinsIsValid(last.args.tx.fee) =>
                 /\ last.err = "ErrInsufficientFee"
                 /\ \A i \in 1..Len(last.log) : last.log[i] # "SendCoinsFromAccountToModule"

\* The payer can afford denomination 1 of a well-formed fee and not denomination 2.
C5_Witness ==
    /\ DeductRan
    /\ last.args.tx.payer \in accounts
    /\ last.args.tx.fee = <<Coin(1, 1), Coin(2, MaxAmount)>>
    /\ last.balBefore["payer"][1] >= 1
    /\ last.balBefore["payer"][2] < MaxAmount
    /\ last.err = "ErrInsufficientFunds"
    /\ balances = last.balBefore

\* C6: with the collector resolvable, a fee payer without an account makes the
\* deduction return ErrUnknownAddress without calling the transfer, changing a
\* balance or calling next, whatever the declared fee.
C6_UnknownPayer ==
    (DeductRan /\ last.args.tx.payer \notin accounts)
        => /\ last.err = "ErrUnknownAddress"
           /\ \A i \in 1..Len(last.log) : last.log[i] # "SendCoinsFromAccountToModule"
           /\ balances = last.balBefore
           /\ last.next = <<>>

C6_Witness ==
    /\ DeductRan
    /\ last.args.tx.payer = "ghost"
    /\ CoinsIsValid(last.args.tx.fee) /\ ~CoinsIsZero(last.args.tx.fee)
    /\ last.err = "ErrUnknownAddress"

\* C7: the validator returns an error exactly when the candidate is not of the
\* expected shape, or its minimum fee set is empty, or (where the parameter has
\* a burn amount) its burn amount is negative.
C7_ValidateFeeExact ==
    /\ validated.validator = "ValidateFee" =>
          ((validated.err # "nil") <=>
              \/ validated.candidate.shape # "FeeParams"
              \/ Len(validated.candidate.fee) = 0
              \/ validated.candidate.burn < 0)
    /\ validated.validator = "ValidateFeeOnly" =>
          ((validated.err # "nil") <=>
              \/ validated.candidate.shape # "Fee"
              \/ Len(validated.candidate.fee) = 0)

\* A candidate of the expected shape with minimums and a burn amount of zero is accepted.
C7_Witness ==
    /\ validated.validator = "ValidateFee"
    /\ validated.candidate.shape = "FeeParams"
    /\ Len(validated.candidate.fee) > 0
    /\ validated.candidate.burn = 0
    /\ validated.err = "nil"

\* C8: no balance changes in a stage invoked in speculative admission or with
\* simulate true.
C8_NoMutationOutsideFinalExecution ==
    (last.stage # "none" /\ (last.args.ctx.isCheckTx \/ last.args.simulate))
        => balances = last.balBefore

\* C9: either stage calls next at most once; when it raises no error of its own
\* it calls next exactly once, as its last step (after its checks and after the
\* transfer), with the arguments it was given; when it returns an error or
\* halts it does not call next.
C9_NextOnceAndLast ==
    (last.stage # "none")
        => /\ Len(last.next) <= 1
           /\ NextCalls(last.log) = Len(last.next)
           /\ last.err = "nil" =>
                 /\ last.next = <<last.args>>
                 /\ last.log[Len(last.log)] = "next"
           /\ last.err # "nil" => last.next = <<>>

\* The deduction transferred and then called next.
C9_Witness ==
    /\ last.stage = "deduct"
    /\ last.log = <<"GetModuleAddress", "GetAccount", "SendCoinsFromAccountToModule", "next">>
    /\ last.err = "nil"
    /\ balances # last.balBefore

\* C10: for every gas limit of the unsigned 64-bit range and every rate >= 0,
\* the active check builds, for each configured denomination, the required
\* amount ceil(rate x gasLimit), never a negative one, and does not accept a
\* transaction all of whose declared amounts are below the required amount of
\* their denomination.
C10_RequiredIsCeiling ==
    CheckRanActive
        => /\ Len(last.required) = Len(store)
           /\ \A i \in 1..Len(last.required) :
                /\ last.required[i].denom = store[i].denom
                /\ BigEq(last.required[i].amount,
                         CeilRateTimesGas(store[i].amount, last.args.tx.gas))
                /\ ~BigIsNegative(last.required[i].amount)
           /\ ~MeetsAnyMinimum(last.args.tx.fee, store, last.args.tx.gas) => last.next = <<>>

\* The same of the fee rule applied to loaded minimums: whenever it completes
\* without halting it has built ceil(rate x gasLimit) for each denomination.
FeeRuleRequiredIsCeiling ==
    (CheckRanActive /\ last.err # "panic")
        => /\ Len(last.required) = Len(store)
           /\ \A i \in 1..Len(last.required) :
                BigEq(last.required[i].amount,
                      CeilRateTimesGas(store[i].amount, last.args.tx.gas))

\* The fee rule applied to loaded minimums never halts.
FeeRuleNeverHalts == CheckRan => last.err # "panic"

\* The fee rule applied to loaded minimums accepts every fee that meets a minimum.
FeeRuleAcceptsAnyMet ==
    (CheckRanActive /\ MeetsAnyMinimum(last.args.tx.fee, store, last.args.tx.gas))
        => last.err = "nil"

====
